---- MODULE Spec2Model ----
(***************************************************************************)
(* PairQR signaling server: the WebSocket relay of server/routes.ts, the   *)
(* in-memory session store of server/storage.ts (MemStorage, the store     *)
(* whose getAllSessions/getAdminStats routes.ts calls), the HMAC pairing   *)
(* code of routes.ts and the HTTP session handlers.                        *)
(*                                                                         *)
(* Specifications:                                                         *)
(*   SpecRelay  the WebSocket handlers (connection, message, close)        *)
(*   SpecJoin   the same handlers, with a count of the peer-joined sent    *)
(*   Spec       the HTTP session handlers, the sweep timer and the clock   *)
(*   SpecStore  the IStorage operations of MemStorage called directly      *)
(*   SpecSig    createSignature / verifySignature as pure functions        *)
(***************************************************************************)
EXTENDS Integers, Sequences, FiniteSets, TLC

\* ------------------------------------------------------------------ bounds
MaxCount == 2        \* saturation of the delivery counters
MaxMinutes == 3      \* the clock runs from 0 to MaxMinutes minutes
TicksPerMinute == 1  \* clock ticks per minute
MaxCreates == 2      \* session-creation requests served
MaxIce == 1          \* ICE candidates stored per session
MaxInbox == 2        \* frames a client has sent that the server has not handled yet

\* ------------------------------------------------------------------ program constants
SESSION_TTL_MINUTES == 2      \* routes.ts:29
SweepIntervalMinutes == 1     \* storage.ts:70 (60000 ms)
DigestLen == 43               \* base64url of a SHA-256 digest, routes.ts:32
HMAC_SECRET == "change-me-in-production"
OtherSecret == "another-secret"

\* JS undefined / a field that is absent from a JSON object
Undefined == "undefined"

Conns == {1, 2, 3}
SessionIds == {"abc", "xyz"}
ClientIds == {"host-1", "peer-1"}
Payloads == {"X"}

RelayKinds == {"webrtc-offer", "webrtc-answer", "ice-candidate", "key-exchange"}

VARIABLES
    \* ---- relay (routes.ts:59-132)
    readyState,        \* [Conns -> {"NONE","OPEN","CLOSED"}]  ws.readyState ("NONE": not yet accepted)
    wsSessionId,       \* ws.sessionId
    wsClientId,        \* ws.clientId
    connectedClients,  \* Map<clientId, ws>: a function from its keys to Conns
    \* ---- relay observation (what client.send() was called with)
    lastEvt,           \* the event handled last: [kind, conn, frame]
    lastDeliv,         \* [Conns -> Seq(message)]: the sends of the last event, per receiver
    pjCount,           \* [Conns -> [Conns -> 0..MaxCount]]: peer-joined received by c from the join of d (saturating)
    nJoinMsgs,         \* [Conns -> 0..MaxCount]: join-session frames handled per connection (saturating)
    joinOrder,         \* connections in the order of their first join-session
    \* ---- session store (storage.ts:26-173) and clock
    now,               \* new Date() / Date.now(), in ticks
    sweepDue,          \* the setInterval callback of the constructor is due
    sessions,          \* Map<id, Session>
    peerOffers,        \* Map<sessionId, offer>
    peerAnswers,       \* Map<sessionId, answer>
    iceCandidates,     \* Map<sessionId, candidate[]>
    \* ---- observation of the last store call / HTTP exchange
    lastOp,            \* [kind, id, code, prior]: the call, its input, the record stored before it
    resp,              \* [status, error, valid, session]: what it returned
    issued,            \* the pairing codes the session-creation handler has issued
    revoked,           \* those whose session id was deleted explicitly afterwards
    usedIds,           \* the ids a session was ever stored under
    nCreated,          \* the number of session-creation requests served
    \* ---- signature service
    vfy,               \* a verifySignature call: [kind, data, signature, done, result, threw]
    \* ---- the sockets' byte streams (used by SpecOrder)
    inbox,             \* [Conns -> Seq(frame)]: frames a client has sent, not yet emitted as 'message'
    sent,              \* [Conns -> Seq(payload)]: the payloads a client has sent, in order
    received,          \* [Conns -> Seq([from, payload])]: relayed frames written to a socket, in order
    \* ---- the last two store operations (used by SpecRace)
    trail,             \* <<[op, store], [op, store]>>: each operation and the store it found
    \* ---- the browser side (used by SpecHandshake and SpecClient)
    wm                 \* [Managers -> the fields of a WebRTCManager and of its WebSocket]

coreVars == <<readyState, wsSessionId, wsClientId, connectedClients, lastEvt, lastDeliv>>
histVars == <<pjCount, nJoinMsgs, joinOrder>>
relayVars == <<coreVars, histVars>>
storeVars == <<now, sweepDue, sessions, peerOffers, peerAnswers, iceCandidates>>
obsVars == <<lastOp, resp, issued, revoked, usedIds, nCreated>>
orderVars == <<inbox, sent, received>>
vars == <<relayVars, storeVars, obsVars, vfy, orderVars, trail, wm>>

\* ------------------------------------------------------------------ frames
\* An inbound text frame after JSON.parse: absent fields are Undefined.
Frame(t, s, c, p, y) ==
    [type |-> t, sessionId |-> s, clientId |-> c, payload |-> p, isTyping |-> y]

JoinFrames ==
    { Frame("join-session", s, c, Undefined, Undefined) :
        s \in SessionIds \cup {Undefined}, c \in ClientIds \cup {Undefined} }

SignalFrames ==
    { Frame(t, Undefined, Undefined, p, Undefined) : t \in RelayKinds, p \in Payloads }

TypingFrames ==
    { Frame("typing", Undefined, Undefined, p, y) : p \in Payloads, y \in {"true", "false"} }

\* a frame of an unknown type, and a frame that is not JSON at all
UnknownFrames == { Frame("chat", Undefined, Undefined, "X", Undefined) }
NotJson == Frame("not-json", Undefined, Undefined, Undefined, Undefined)

\* JSON.stringify({type:'peer-joined', clientId}): an undefined clientId is dropped
PeerJoinedMsg(clientId) == Frame("peer-joined", Undefined, clientId, Undefined, Undefined)
PeerLeftMsg(clientId) == Frame("peer-left", Undefined, clientId, Undefined, Undefined)
\* JSON.stringify({type:'typing', isTyping: message.isTyping})
TypingMsg(m) == Frame("typing", Undefined, Undefined, Undefined, m.isTyping)

NoEvt == [kind |-> "none", conn |-> 0, frame |-> NotJson]

\* ------------------------------------------------------------------ helpers
\* the keys of connectedClients that map to connection c
KeysOf(cc, c) == { k \in DOMAIN cc : cc[k] = c }

\* Map.set(key, ws)
MapSet(cc, k, c) == [x \in (DOMAIN cc) \cup {k} |-> IF x = k THEN c ELSE cc[x]]
\* Map.delete(key)
MapDelete(cc, k) == [x \in (DOMAIN cc) \ {k} |-> cc[x]]

\* n copies of message m
RECURSIVE Copies(_, _)
Copies(m, n) == IF n = 0 THEN << >> ELSE <<m>> \o Copies(m, n - 1)

\* connectedClients.forEach(client => if (cond(client)) client.send(msg)):
\* a connection stored under n keys is visited, and sent to, n times.
Fanout(cc, receivers, msg) ==
    [d \in Conns |-> IF d \in receivers THEN Copies(msg, Cardinality(KeysOf(cc, d))) ELSE << >>]

NoDeliv == [d \in Conns |-> << >>]

\* ------------------------------------------------------------------ relay
RelayInit ==
    /\ readyState = [c \in Conns |-> "NONE"]
    /\ wsSessionId = [c \in Conns |-> Undefined]
    /\ wsClientId = [c \in Conns |-> Undefined]
    /\ connectedClients = << >>
    /\ lastEvt = NoEvt
    /\ lastDeliv = NoDeliv
    /\ pjCount = [c \in Conns |-> [d \in Conns |-> 0]]
    /\ nJoinMsgs = [c \in Conns |-> 0]
    /\ joinOrder = << >>

\* wss.on('connection'): a new socket is accepted
Connection(ws) ==
    /\ readyState[ws] = "NONE"
    /\ \A c \in Conns : c < ws => readyState[c] # "NONE"   \* handles number the sockets in accept order
    /\ readyState' = [readyState EXCEPT ![ws] = "OPEN"]
    /\ lastEvt' = [kind |-> "connection", conn |-> ws, frame |-> NotJson]
    /\ lastDeliv' = NoDeliv
    /\ UNCHANGED <<wsSessionId, wsClientId, connectedClients>>

\* the key of the session table for the sessionId a frame names (the model
\* writes store keys as character sequences, frame fields as atoms)
StoredAs(sessionId) == IF sessionId = "abc" THEN <<"a">> ELSE <<"u">>

\* (mutant) peers are told of a join only while the session record is stored
JoinReceiverLiveSession(ws, sessionId, rs, sid, d) ==
    d # ws /\ sid[d] = sessionId /\ rs[d] = "OPEN" /\ StoredAs(sessionId) \in DOMAIN sessions

\* (mutant) the session test reads ws.sessionId before the handler has set it
JoinReceiverStaleTag(ws, sessionId, rs, sid, d) ==
    d # ws /\ sid[d] = wsSessionId[ws] /\ rs[d] = "OPEN"

\* the receivers of the join-session broadcast, evaluated after the Map.set
\* and the tagging of ws (routes.ts:79)
JoinReceiver(ws, sessionId, rs, sid, d) ==
    d # ws /\ sid[d] = sessionId /\ rs[d] = "OPEN"

\* case 'join-session'
HandleJoin(ws, m) ==
    LET cc1 == MapSet(connectedClients, m.clientId, ws)
        sid1 == [wsSessionId EXCEPT ![ws] = m.sessionId]
        receivers == { d \in Conns : JoinReceiver(ws, m.sessionId, readyState, sid1, d) }
        deliv == Fanout(cc1, receivers, PeerJoinedMsg(m.clientId))
    IN  /\ connectedClients' = cc1
        /\ wsSessionId' = sid1
        /\ wsClientId' = [wsClientId EXCEPT ![ws] = m.clientId]
        /\ lastDeliv' = deliv
        /\ UNCHANGED readyState

\* (mutant) frames are relayed only while the session record is stored
RelayReceiverLiveSession(ws, rs, sid, d) ==
    d # ws /\ sid[d] = sid[ws] /\ rs[d] = "OPEN" /\ StoredAs(sid[ws]) \in DOMAIN sessions
\* (mutant) the sender is not excluded
RelayReceiverSelf(ws, rs, sid, d) == sid[d] = sid[ws] /\ rs[d] = "OPEN"
\* (mutant) the receiver's session is not compared
RelayReceiverAnySession(ws, rs, sid, d) == d # ws /\ rs[d] = "OPEN"
\* the receivers of a relayed frame (routes.ts:94 and :103)
RelayReceiver(ws, rs, sid, d) ==
    d # ws /\ sid[d] = sid[ws] /\ rs[d] = "OPEN"

\* A frame's payload as bytes that are not valid UTF-8 (a binary frame; the
\* 'message' handler does not look at isBinary), and what decoding makes of it.
BadUtf8 == "bytes-ff"
Replacement == "U+FFFD"
\* Buffer.prototype.toString(): UTF-8 decoding, an invalid sequence becomes U+FFFD
BufferToString(p) == IF p = BadUtf8 THEN Replacement ELSE p
\* data.toString() of the frame whose JSON.parse gave m
DataToString(m) == [m EXCEPT !.payload = BufferToString(@)]

\* case 'webrtc-offer' | 'webrtc-answer' | 'ice-candidate' | 'key-exchange':
\* client.send(data.toString()), the decoded text of the frame
HandleSignal(ws, m) ==
    LET receivers == { d \in Conns : RelayReceiver(ws, readyState, wsSessionId, d) }
    IN  /\ lastDeliv' = Fanout(connectedClients, receivers, DataToString(m))
        /\ UNCHANGED <<readyState, wsSessionId, wsClientId, connectedClients>>

\* case 'typing'
HandleTyping(ws, m) ==
    LET receivers == { d \in Conns : RelayReceiver(ws, readyState, wsSessionId, d) }
    IN  /\ lastDeliv' = Fanout(connectedClients, receivers, TypingMsg(m))
        /\ UNCHANGED <<readyState, wsSessionId, wsClientId, connectedClients>>

\* (mutant) a frame that cannot be handled ends the connection's membership
HandleIgnoredUnjoin(ws, m) ==
    /\ lastDeliv' = NoDeliv
    /\ wsSessionId' = [wsSessionId EXCEPT ![ws] = Undefined]
    /\ UNCHANGED <<readyState, wsClientId, connectedClients>>
\* a frame of no known type, or JSON.parse throwing into the catch
HandleIgnored(ws, m) ==
    /\ lastDeliv' = NoDeliv
    /\ UNCHANGED <<readyState, wsSessionId, wsClientId, connectedClients>>

\* ws.on('message')
OnMessage(ws, m) ==
    /\ readyState[ws] = "OPEN"
    /\ lastEvt' = [kind |-> "message", conn |-> ws, frame |-> m]
    /\ IF m.type = "not-json" THEN HandleIgnored(ws, m)
       ELSE IF m.type = "join-session" THEN HandleJoin(ws, m)
       ELSE IF m.type \in RelayKinds THEN HandleSignal(ws, m)
       ELSE IF m.type = "typing" THEN HandleTyping(ws, m)
       ELSE HandleIgnored(ws, m)

\* the receivers of peer-left (routes.ts:123): no client !== ws test, the
\* closing socket itself is no longer OPEN
CloseReceiver(ws, rs, sid, d) ==
    sid[d] = sid[ws] /\ rs[d] = "OPEN"

\* ws.on('close').  A closed socket handles no further event and is never sent
\* to (every send is guarded by readyState === OPEN), so its sessionId and
\* clientId tags are never read again: the model drops them at the close (they
\* are kept in lastEvt), which keeps closed sockets from multiplying states.
\* Entries of connectedClients that still point to it stay.
OnClose(ws) ==
    /\ readyState[ws] = "OPEN"
    /\ LET rs1 == [readyState EXCEPT ![ws] = "CLOSED"]
           cc1 == MapDelete(connectedClients, wsClientId[ws])
           receivers == { d \in Conns : CloseReceiver(ws, rs1, wsSessionId, d) }
       IN  /\ readyState' = rs1
           /\ IF wsClientId[ws] # Undefined
              THEN /\ connectedClients' = cc1
                   /\ lastDeliv' = Fanout(cc1, receivers, PeerLeftMsg(wsClientId[ws]))
              ELSE /\ connectedClients' = connectedClients
                   /\ lastDeliv' = NoDeliv
    /\ lastEvt' = [kind |-> "close", conn |-> ws,
                   frame |-> Frame("close", wsSessionId[ws], wsClientId[ws], Undefined, Undefined)]
    /\ wsSessionId' = [wsSessionId EXCEPT ![ws] = Undefined]
    /\ wsClientId' = [wsClientId EXCEPT ![ws] = Undefined]

\* ================================================================== signature service
\* Strings are sequences of characters.
Alphabet == <<"a", "u", "p", "q", "|", "0", "1", "2", "3", "4", "5", "6", "7", "8", "9">>
CharCodes == [ch \in {Alphabet[i] : i \in 1..Len(Alphabet)} |-> CHOOSE i \in 1..Len(Alphabet) : Alphabet[i] = ch]
CharCode(ch) == CharCodes[ch]
Digits == <<"0", "1", "2", "3", "4", "5", "6", "7", "8", "9">>

\* Number.prototype.toString of a non-negative integer
RECURSIVE ToStr(_)
ToStr(n) == IF n < 10 THEN <<Digits[n + 1]>> ELSE ToStr(n \div 10) \o <<Digits[(n % 10) + 1]>>

SecretCode(secret) == IF secret = HMAC_SECRET THEN 17 ELSE 40

\* createHmac('sha256', secret).update(data).digest('base64url'): HMAC-SHA256
\* is modelled as a deterministic keyed encoding of fixed length DigestLen that
\* is free of collisions on the strings of the model (each base64url character
\* is a number 0..63).
HmacDigest(secret, data) ==
    [i \in 1..DigestLen |->
        ((IF i <= Len(data) THEN CharCode(data[i]) ELSE 0) + SecretCode(secret) + i) % 64]

\* function createSignature(data)
createSignature(data) == HmacDigest(HMAC_SECRET, data)

\* (mutant) the comparison stops at the length test
verifySignatureLengthOnly(data, signature) ==
    Len(createSignature(data)) = Len(signature)

\* function verifySignature(data, signature), for a signature that is a string
verifySignature(data, signature) ==
    LET expectedBuffer == createSignature(data)
        providedBuffer == signature
    IN  IF Len(expectedBuffer) # Len(providedBuffer) THEN FALSE
        ELSE \A i \in 1..Len(expectedBuffer) : expectedBuffer[i] = providedBuffer[i]

\* `${id}|${hostPublicKey}|${expiresAt.getTime()}`
QrData(id, hostPublicKey, expiration) ==
    id \o <<"|">> \o hostPublicKey \o <<"|">> \o ToStr(expiration)

\* ================================================================== session store
ClientChosenIds == {<<"a">>}     \* ids sent in the body of POST /api/sessions
UuidPool == {<<"u">>}            \* what randomUUID() returns
AllIds == ClientChosenIds \cup UuidPool
HostKeys == {<<"p">>, <<"q">>}
Absent == <<"(absent)">>         \* a body field that is missing
TempSignature == <<0>>           \* 'temp-signature'
NoSig == <<0 - 1>>               \* a signature field that is missing (undefined)
BodySignature == <<1>>           \* a signature string sent in the body of POST /api/sessions

MaxTime == MaxMinutes * TicksPerMinute
TtlTicks == SESSION_TTL_MINUTES * TicksPerMinute
SweepTicks == SweepIntervalMinutes * TicksPerMinute

NoSession ==
    [id |-> << >>, hostPublicKey |-> << >>, signature |-> << >>,
     expiresAt |-> 0, createdAt |-> 0, isActive |-> "none"]
NoCode == [sessionId |-> << >>, hostPublicKey |-> << >>, expiration |-> 0, signature |-> << >>]

Put(map, k, v) == [x \in (DOMAIN map) \cup {k} |-> IF x = k THEN v ELSE map[x]]
Del(map, k) == [x \in (DOMAIN map) \ {k} |-> map[x]]
Lookup(map, k, dflt) == IF k \in DOMAIN map THEN map[k] ELSE dflt

\* MemStorage.createSession: the record stored (and returned)
NewSession(insert, t) ==
    [id |-> insert.id, hostPublicKey |-> insert.hostPublicKey, signature |-> insert.signature,
     expiresAt |-> insert.expiresAt, createdAt |-> t, isActive |-> "true"]
createSession(sess, insert, t) == Put(sess, insert.id, NewSession(insert, t))

\* (mutant) the expiry test of getSession gives up a session one tick early
NotExpiredEarly(session, t) == session.expiresAt > t + 1
\* (mutant) the expiry test of getSession admits the expiry instant itself
NotExpiredInclusive(session, t) == session.expiresAt >= t
\* session.expiresAt > new Date()
NotExpired(session, t) == session.expiresAt > t

\* MemStorage.getSession: what it returns (NoSession for undefined) ...
getSessionResult(sess, id, t) ==
    IF id \in DOMAIN sess /\ NotExpired(sess[id], t) THEN sess[id] ELSE NoSession
\* ... and the table it leaves: an expired record is deleted, peer data is not
getSessionStore(sess, id, t) ==
    IF id \in DOMAIN sess /\ ~NotExpired(sess[id], t) THEN Del(sess, id) ELSE sess

\* { ...session, ...updates }
Merge(session, updates) ==
    [f \in DOMAIN session |-> IF f \in DOMAIN updates THEN updates[f] ELSE session[f]]
\* (mutant) the update is dropped
updateSessionNoop(sess, id, updates) == sess
\* MemStorage.updateSession
updateSession(sess, id, updates) ==
    IF id \in DOMAIN sess THEN Put(sess, id, Merge(sess[id], updates)) ELSE sess

\* (mutant) a session is swept only after its expiry instant
sessionsToDeleteStrict(sess, t) == { id \in DOMAIN sess : sess[id].expiresAt < t }
\* MemStorage.cleanupExpiredSessions: the ids it deletes
sessionsToDelete(sess, t) == { id \in DOMAIN sess : sess[id].expiresAt <= t }

StoreInit ==
    /\ now = 0
    /\ sweepDue = FALSE
    /\ sessions = << >>
    /\ peerOffers = << >>
    /\ peerAnswers = << >>
    /\ iceCandidates = << >>
    /\ lastOp = [kind |-> "none", id |-> << >>, code |-> NoCode, prior |-> NoSession]
    /\ resp = [status |-> 0, error |-> "", valid |-> FALSE, session |-> NoSession]
    /\ issued = {}
    /\ revoked = {}
    /\ usedIds = {}
    /\ nCreated = 0

\* a call of verifySignature that has not returned yet
Call(kind, m, signature) ==
    [kind |-> kind, data |-> m, signature |-> signature, done |-> FALSE, result |-> FALSE,
     threw |-> FALSE]

NoCall == vfy = Call("none", << >>, << >>)

Op(kind, id, code) ==
    [kind |-> kind, id |-> id, code |-> code, prior |-> Lookup(sessions, id, NoSession)]
Resp(status, error, valid, session) ==
    [status |-> status, error |-> error, valid |-> valid, session |-> session]

\* the clock advances; the sweep timer comes due every SweepTicks
Tick ==
    /\ now < MaxTime
    /\ ~sweepDue
    /\ now' = now + 1
    /\ sweepDue' = ((now + 1) % SweepTicks = 0)
    /\ lastOp' = Op("tick", << >>, NoCode)
    /\ UNCHANGED <<sessions, peerOffers, peerAnswers, iceCandidates, resp, issued, revoked,
                   usedIds, nCreated>>

\* ---------------------------------------------------------------- HTTP handlers
\* POST /api/sessions.  createSession and updateSession run in one turn of the
\* event loop (MemStorage awaits nothing), so no other handler runs between them.
PostSessions(bodyId, bodyKey, bodySig) ==
    LET id == IF bodyId = Absent THEN CHOOSE u \in UuidPool \ usedIds : TRUE ELSE bodyId
        expiresAt == now + TtlTicks
        sessionData == [id |-> id, hostPublicKey |-> bodyKey,
                        signature |-> IF bodySig = NoSig THEN TempSignature ELSE bodySig,
                        expiresAt |-> expiresAt]
        session == NewSession(sessionData, now)
        signature == createSignature(QrData(session.id, session.hostPublicKey, session.expiresAt))
        code == [sessionId |-> session.id, hostPublicKey |-> session.hostPublicKey,
                 expiration |-> session.expiresAt, signature |-> signature]
    IN  /\ bodyId = Absent => UuidPool \ usedIds # {}
        /\ nCreated < MaxCreates
        /\ IF bodyKey = Absent
           THEN \* insertSessionSchema.parse throws: 400
                /\ lastOp' = Op("post-invalid", id, NoCode)
                /\ resp' = Resp(400, "Invalid session data", FALSE, NoSession)
                /\ UNCHANGED <<sessions, issued, revoked, usedIds, nCreated>>
           ELSE /\ sessions' = updateSession(createSession(sessions, sessionData, now),
                                             session.id, [signature |-> signature])
                /\ lastOp' = Op("post", id, code)
                /\ resp' = Resp(200, "", FALSE, session)
                /\ issued' = issued \cup {code}
                /\ revoked' = revoked \ {code}
                /\ usedIds' = usedIds \cup {id}
                /\ nCreated' = nCreated + 1
        /\ UNCHANGED <<now, sweepDue, peerOffers, peerAnswers, iceCandidates>>

\* (mutant) a signature that cannot be read counts as verified
verifySignatureOutcomeLenient(data, signature) ==
    IF signature = NoSig THEN "true"
    ELSE IF verifySignature(data, signature) THEN "true" ELSE "false"
\* what verifySignature does with the signature field of a request body:
\* Buffer.from(undefined) throws a TypeError
verifySignatureOutcome(data, signature) ==
    IF signature = NoSig THEN "throws"
    ELSE IF verifySignature(data, signature) THEN "true" ELSE "false"

\* the answer of GET /api/sessions/:id
GetResponse(sess, id, t) ==
    LET session == getSessionResult(sess, id, t)
    IN  IF session = NoSession
        THEN Resp(404, "Session not found or expired", FALSE, NoSession)
        ELSE Resp(200, "", FALSE, session)

\* GET /api/sessions/:id
GetSessionReq(id) ==
    /\ sessions' = getSessionStore(sessions, id, now)
    /\ lastOp' = Op("get", id, NoCode)
    /\ resp' = GetResponse(sessions, id, now)
    /\ UNCHANGED <<now, sweepDue, peerOffers, peerAnswers, iceCandidates, issued, revoked,
                   usedIds, nCreated>>

\* the answer of POST /api/sessions/:id/join
JoinResponse(sess, id, bodyOk, t) ==
    LET session == getSessionResult(sess, id, t)
    IN  IF ~bodyOk THEN Resp(400, "Invalid join data", FALSE, NoSession)
        ELSE IF session = NoSession
        THEN Resp(404, "Session not found or expired", FALSE, NoSession)
        ELSE Resp(200, "", FALSE, session)

\* POST /api/sessions/:id/join
JoinReq(id, bodyOk) ==
    /\ sessions' = IF ~bodyOk
                   THEN sessions   \* sessionJoinSchema.parse throws before the store is read
                   ELSE getSessionStore(sessions, id, now)
    /\ resp' = JoinResponse(sessions, id, bodyOk, now)
    /\ lastOp' = Op(IF bodyOk THEN "join" ELSE "join-invalid", id, NoCode)
    /\ UNCHANGED <<now, sweepDue, peerOffers, peerAnswers, iceCandidates, issued, revoked,
                   usedIds, nCreated>>

\* (mutant) the store is read whether or not the signature verifies
VerifyReadsStoreUnverified(body, t) == ~(t > body.expiration)
\* POST /api/verify-qr gets as far as storage.getSession
VerifyReadsStore(body, t) ==
    /\ ~(t > body.expiration)
    /\ verifySignatureOutcome(QrData(body.sessionId, body.hostPublicKey, body.expiration),
                              body.signature) = "true"

\* the answer of POST /api/verify-qr
VerifyResponse(sess, body, t) ==
    LET data == QrData(body.sessionId, body.hostPublicKey, body.expiration)
        verified == verifySignatureOutcome(data, body.signature)
        session == getSessionResult(sess, body.sessionId, t)
    IN  IF t > body.expiration THEN Resp(400, "QR code expired", FALSE, NoSession)
        ELSE IF verified = "throws"
        THEN Resp(400, "Invalid verification data", FALSE, NoSession)   \* the catch block
        ELSE IF verified = "false" THEN Resp(400, "Invalid QR signature", FALSE, NoSession)
        ELSE IF session = NoSession THEN Resp(404, "Session not found", FALSE, NoSession)
        ELSE Resp(200, "", TRUE, session)

\* POST /api/verify-qr
VerifyQr(body) ==
    /\ lastOp' = Op("verify", body.sessionId, body)
    /\ resp' = VerifyResponse(sessions, body, now)
    /\ sessions' = IF VerifyReadsStore(body, now)
                   THEN getSessionStore(sessions, body.sessionId, now)
                   ELSE sessions
    /\ UNCHANGED <<now, sweepDue, peerOffers, peerAnswers, iceCandidates, issued, revoked,
                   usedIds, nCreated>>

\* (mutant) the blobs are kept
clearPeerDataKeep(map, ids) == map
\* MemStorage.clearPeerData
clearPeerData(map, ids) == [x \in (DOMAIN map) \ ids |-> map[x]]

\* (mutant) a delete that leaves the session's signaling blobs behind
DeleteReqKeepBlobs(id) ==
    /\ sessions' = Del(sessions, id)
    /\ lastOp' = Op("delete", id, NoCode)
    /\ resp' = Resp(200, "", FALSE, NoSession)
    /\ revoked' = revoked \cup { c \in issued : c.sessionId = id }
    /\ UNCHANGED <<peerOffers, peerAnswers, iceCandidates, now, sweepDue, issued, usedIds, nCreated>>

\* DELETE /api/sessions/:id -> MemStorage.deleteSession
DeleteReq(id) ==
    /\ sessions' = Del(sessions, id)
    /\ peerOffers' = clearPeerData(peerOffers, {id})
    /\ peerAnswers' = clearPeerData(peerAnswers, {id})
    /\ iceCandidates' = clearPeerData(iceCandidates, {id})
    /\ lastOp' = Op("delete", id, NoCode)
    /\ resp' = Resp(200, "", FALSE, NoSession)
    /\ revoked' = revoked \cup { c \in issued : c.sessionId = id }
    /\ UNCHANGED <<now, sweepDue, issued, usedIds, nCreated>>

\* (mutant) the sweep only logs
cleanupExpiredSessionsNoop == UNCHANGED <<sessions, peerOffers, peerAnswers, iceCandidates>>
\* the setInterval callback -> MemStorage.cleanupExpiredSessions
cleanupExpiredSessions ==
    LET gone == sessionsToDelete(sessions, now)
    IN  /\ sessions' = [x \in (DOMAIN sessions) \ gone |-> sessions[x]]
        /\ peerOffers' = clearPeerData(peerOffers, gone)
        /\ peerAnswers' = clearPeerData(peerAnswers, gone)
        /\ iceCandidates' = clearPeerData(iceCandidates, gone)

SweepTimer ==
    /\ sweepDue
    /\ sweepDue' = FALSE
    /\ cleanupExpiredSessions
    /\ lastOp' = Op("sweep", << >>, NoCode)
    /\ UNCHANGED <<now, resp, issued, revoked, usedIds, nCreated>>

\* what a client can submit to /api/verify-qr: an issued code as it is, or altered
Altered(code, how) ==
    IF how = "signature-bit"
    THEN [code EXCEPT !.signature = [@ EXCEPT ![1] = (@ + 1) % 64]]
    ELSE IF how = "other-secret"
    THEN [code EXCEPT !.signature =
              HmacDigest(OtherSecret, QrData(code.sessionId, code.hostPublicKey, code.expiration))]
    ELSE IF how = "later-expiry" THEN [code EXCEPT !.expiration = @ + 1]
    ELSE IF how = "other-key"
    THEN [code EXCEPT !.hostPublicKey = CHOOSE k \in HostKeys : k # code.hostPublicKey]
    ELSE IF how = "no-signature" THEN [code EXCEPT !.signature = NoSig]
    ELSE code
Alterations == {"none", "signature-bit", "other-secret", "later-expiry", "other-key", "no-signature"}

\* what the HTTP handlers, the timer and the clock leave alone
HttpIdle == UNCHANGED <<relayVars, vfy, orderVars, trail, wm>>

HttpNext ==
    \/ \E i \in ClientChosenIds \cup {Absent}, k \in HostKeys \cup {Absent},
          g \in {NoSig, BodySignature} : PostSessions(i, k, g) /\ HttpIdle
    \/ \E id \in AllIds : GetSessionReq(id) /\ HttpIdle
    \/ \E id \in AllIds, ok \in BOOLEAN : JoinReq(id, ok) /\ HttpIdle
    \/ \E c \in issued, how \in Alterations : VerifyQr(Altered(c, how)) /\ HttpIdle
    \/ \E id \in AllIds : DeleteReq(id) /\ HttpIdle
    \/ SweepTimer /\ HttpIdle
    \/ Tick /\ HttpIdle

\* ---------------------------------------------------------------- the store's own interface
\* MemStorage as its callers may drive it (IStorage), peer signaling blobs included.
Offers == {"offer-sdp"}
Answers == {"answer-sdp"}
Candidates == {"candidate"}

\* MemStorage.getPeerOffer / getPeerAnswer / getIceCandidates
getPeerOffer(sessionId) == Lookup(peerOffers, sessionId, Undefined)
getPeerAnswer(sessionId) == Lookup(peerAnswers, sessionId, Undefined)
getIceCandidates(sessionId) == Lookup(iceCandidates, sessionId, << >>)

StoreFrame(kind, id) ==
    /\ lastOp' = Op(kind, id, NoCode)
    /\ UNCHANGED <<now, sweepDue, issued, revoked, usedIds, nCreated>>

StoreCreateSession(id, key, ttl) ==
    LET insert == [id |-> id, hostPublicKey |-> key, signature |-> TempSignature,
                   expiresAt |-> now + ttl]
    IN  /\ sessions' = createSession(sessions, insert, now)
        /\ resp' = Resp(0, "", FALSE, NewSession(insert, now))
        /\ StoreFrame("create", id)
        /\ UNCHANGED <<peerOffers, peerAnswers, iceCandidates>>

StoreGetSession(id) ==
    /\ sessions' = getSessionStore(sessions, id, now)
    /\ resp' = Resp(0, "", FALSE, getSessionResult(sessions, id, now))
    /\ StoreFrame("get", id)
    /\ UNCHANGED <<peerOffers, peerAnswers, iceCandidates>>

StoreUpdateSignature(id) ==
    LET session == Lookup(sessions, id, NoSession)
        updates == [signature |->
                       createSignature(QrData(id, session.hostPublicKey, session.expiresAt))]
    IN  /\ sessions' = updateSession(sessions, id, updates)
        /\ resp' = Resp(0, "", FALSE, Lookup(sessions', id, NoSession))
        /\ StoreFrame("update", id)
        /\ UNCHANGED <<peerOffers, peerAnswers, iceCandidates>>

\* updateSession(id, {expiresAt}): Partial<Session> admits every field
StoreUpdateExpiresAt(id, expiresAt) ==
    /\ sessions' = updateSession(sessions, id, [expiresAt |-> expiresAt])
    /\ resp' = Resp(0, "", FALSE, Lookup(sessions', id, NoSession))
    /\ StoreFrame("update-expiry", id)
    /\ UNCHANGED <<peerOffers, peerAnswers, iceCandidates>>

\* updateSession(id, {createdAt})
StoreUpdateCreatedAt(id, createdAt) ==
    /\ sessions' = updateSession(sessions, id, [createdAt |-> createdAt])
    /\ resp' = Resp(0, "", FALSE, Lookup(sessions', id, NoSession))
    /\ StoreFrame("update-created", id)
    /\ UNCHANGED <<peerOffers, peerAnswers, iceCandidates>>

StoreDeleteSession(id) ==
    /\ sessions' = Del(sessions, id)
    /\ peerOffers' = clearPeerData(peerOffers, {id})
    /\ peerAnswers' = clearPeerData(peerAnswers, {id})
    /\ iceCandidates' = clearPeerData(iceCandidates, {id})
    /\ resp' = Resp(0, "", FALSE, NoSession)
    /\ StoreFrame("delete", id)

StorePeerOffer(id, offer) ==
    /\ peerOffers' = Put(peerOffers, id, offer)
    /\ resp' = Resp(0, "", FALSE, NoSession)
    /\ StoreFrame("store-offer", id)
    /\ UNCHANGED <<sessions, peerAnswers, iceCandidates>>

StorePeerAnswer(id, answer) ==
    /\ peerAnswers' = Put(peerAnswers, id, answer)
    /\ resp' = Resp(0, "", FALSE, NoSession)
    /\ StoreFrame("store-answer", id)
    /\ UNCHANGED <<sessions, peerOffers, iceCandidates>>

StoreIceCandidate(id, candidate) ==
    /\ Len(getIceCandidates(id)) < MaxIce
    /\ iceCandidates' = Put(iceCandidates, id, Append(getIceCandidates(id), candidate))
    /\ resp' = Resp(0, "", FALSE, NoSession)
    /\ StoreFrame("store-candidate", id)
    /\ UNCHANGED <<sessions, peerOffers, peerAnswers>>

StoreClearPeerData(id) ==
    /\ peerOffers' = clearPeerData(peerOffers, {id})
    /\ peerAnswers' = clearPeerData(peerAnswers, {id})
    /\ iceCandidates' = clearPeerData(iceCandidates, {id})
    /\ resp' = Resp(0, "", FALSE, NoSession)
    /\ StoreFrame("clear", id)
    /\ UNCHANGED sessions

StoreIds == AllIds
StoreNext ==
    \/ \E id \in StoreIds, key \in {<<"p">>}, ttl \in {TtlTicks} : StoreCreateSession(id, key, ttl) /\ HttpIdle
    \/ \E id \in StoreIds : StoreGetSession(id) /\ HttpIdle
    \/ \E id \in StoreIds : StoreUpdateSignature(id) /\ HttpIdle
    \/ \E id \in StoreIds : StoreDeleteSession(id) /\ HttpIdle
    \/ \E id \in StoreIds, o \in Offers : StorePeerOffer(id, o) /\ HttpIdle
    \/ \E id \in StoreIds, a \in Answers : StorePeerAnswer(id, a) /\ HttpIdle
    \/ \E id \in StoreIds, c \in Candidates : StoreIceCandidate(id, c) /\ HttpIdle
    \/ \E id \in StoreIds : StoreClearPeerData(id) /\ HttpIdle
    \/ SweepTimer /\ HttpIdle
    \/ Tick /\ HttpIdle

\* ---------------------------------------------------------------- sweep against delete
\* The timer callback and the DELETE handler are two event-loop callbacks over
\* the same maps; neither awaits, so each runs to completion and their
\* interleavings are their two orders. trail keeps the last two operations,
\* each with the store it found.
Store ==
    [sessions |-> sessions, peerOffers |-> peerOffers, peerAnswers |-> peerAnswers,
     iceCandidates |-> iceCandidates]
Snap(op, store) == [op |-> op, store |-> store]
TrailInit == trail = <<Snap(lastOp, Store), Snap(lastOp, Store)>>
Trailed ==
    /\ trail' = <<trail[2], Snap(lastOp', Store)>>
    /\ UNCHANGED <<relayVars, vfy, orderVars, wm>>

RaceNext ==
    \/ \E id \in StoreIds, key \in {<<"p">>}, ttl \in {TtlTicks} : StoreCreateSession(id, key, ttl) /\ Trailed
    \/ \E id \in StoreIds, o \in Offers : StorePeerOffer(id, o) /\ Trailed
    \/ \E id \in StoreIds, c \in Candidates : StoreIceCandidate(id, c) /\ Trailed
    \/ \E id \in StoreIds : DeleteReq(id) /\ Trailed
    \/ SweepTimer /\ Trailed
    \/ Tick /\ Trailed

\* ---------------------------------------------------------------- calls of verifySignature
Messages ==
    { QrData(id, key, e) : id \in ClientChosenIds, key \in HostKeys, e \in {9, 10} }
Deltas == {1, 2, 4, 8, 16, 32}     \* one bit of a base64url character

\* the arguments of the calls: message m with its own signature, or with one that
\* is altered, made under another secret, made for another message, or of another length
VerifyCalls ==
    { Call("genuine", m, createSignature(m)) : m \in Messages }
    \cup { Call("bit-altered", m, [createSignature(m) EXCEPT ![i] = (@ + d) % 64]) :
              m \in Messages, i \in 1..DigestLen, d \in Deltas }
    \cup { Call("other-secret", m, HmacDigest(OtherSecret, m)) : m \in Messages }
    \cup { Call("other-message", mm[1], createSignature(mm[2])) :
              mm \in { x \in Messages \X Messages : x[1] # x[2] } }
    \cup { Call("truncated", m, SubSeq(createSignature(m), 1, i - 1)) :
              m \in Messages, i \in 1..DigestLen }
    \cup { Call("extended", m, createSignature(m) \o <<d>>) : m \in Messages, d \in Deltas }
    \cup { Call("empty", m, << >>) : m \in Messages }
    \cup { Call("missing", m, NoSig) : m \in Messages }

SigInit == vfy \in VerifyCalls

VerifyCall ==
    /\ ~vfy.done
    /\ vfy' = [vfy EXCEPT !.done = TRUE,
                          !.result = (verifySignatureOutcome(vfy.data, vfy.signature) = "true"),
                          !.threw = (verifySignatureOutcome(vfy.data, vfy.signature) = "throws")]

SigNext == VerifyCall /\ UNCHANGED <<relayVars, storeVars, obsVars, orderVars, trail, wm>>

\* join-session frames carrying both a sessionId and a clientId
WellFormedJoins ==
    { f \in JoinFrames : f.sessionId # Undefined /\ f.clientId # Undefined }

OtherFrames == SignalFrames \cup TypingFrames \cup UnknownFrames \cup {NotJson}

\* ---------------------------------------------------------------- frames in transit
\* A socket is a byte stream: the frames a client sends are emitted as
\* 'message' events in the order sent, and what client.send() writes to a
\* socket arrives in the order written.
OrderPayloads == {"m1", "m2"}
OrderFrames == { Frame("ice-candidate", Undefined, Undefined, p, Undefined) : p \in OrderPayloads }
OrderJoins == { f \in WellFormedJoins : f.sessionId = "abc" }

OrderInit ==
    /\ inbox = [c \in Conns |-> << >>]
    /\ sent = [c \in Conns |-> << >>]
    /\ received = [c \in Conns |-> << >>]

\* websocket.send(frame) on the client of socket ws
ClientSend(ws, m) ==
    /\ readyState[ws] = "OPEN"
    /\ Len(inbox[ws]) < MaxInbox
    /\ m \in OrderFrames => \A i \in 1..Len(sent[ws]) : sent[ws][i] # m.payload
    /\ inbox' = [inbox EXCEPT ![ws] = Append(@, m)]
    /\ sent' = [sent EXCEPT ![ws] = IF m \in OrderFrames THEN Append(@, m.payload) ELSE @]
    /\ UNCHANGED <<coreVars, received>>

\* the relayed frames among what one handler run sent to a socket, with their sender
RECURSIVE Relayed(_, _)
Relayed(ws, batch) ==
    IF batch = << >> THEN << >>
    ELSE (IF Head(batch).type \in RelayKinds
          THEN <<[from |-> ws, payload |-> Head(batch).payload]>> ELSE << >>)
         \o Relayed(ws, Tail(batch))

\* (mutant) what a handler run sends overtakes what was written before
SendToFront(queue, batch) == batch \o queue
\* client.send(...): written to the socket after everything written before
SendTo(queue, batch) == queue \o batch

\* the 'message' event of the oldest frame in transit; the handler awaits
\* nothing, so it runs to its end before the next event
ServerHandle(ws) ==
    /\ inbox[ws] # << >>
    /\ OnMessage(ws, Head(inbox[ws]))
    /\ inbox' = [inbox EXCEPT ![ws] = Tail(@)]
    /\ received' = [d \in Conns |-> SendTo(received[d], Relayed(ws, lastDeliv'[d]))]
    /\ UNCHANGED sent

\* the 'close' event comes after the 'message' events of the frames received
OrderClose(ws) ==
    /\ inbox[ws] = << >>
    /\ OnClose(ws)
    /\ UNCHANGED orderVars

OrderIdle == UNCHANGED <<histVars, storeVars, obsVars, vfy, trail, wm>>
OrderConns == {1, 2}
OrderSenders == {1}      \* the connection whose frames are followed
OrderNext ==
    \/ \E ws \in OrderConns : Connection(ws) /\ UNCHANGED orderVars /\ OrderIdle
    \/ \E ws \in OrderConns, m \in OrderJoins : ClientSend(ws, m) /\ OrderIdle
    \/ \E ws \in OrderSenders, m \in OrderFrames : ClientSend(ws, m) /\ OrderIdle
    \/ \E ws \in OrderConns : ServerHandle(ws) /\ OrderIdle
    \/ \E ws \in OrderConns : OrderClose(ws) /\ OrderIdle
\* ---------------------------------------------------------------- the browser side
\* WebRTCManager (client/src/lib/webrtc.ts): the signaling socket of a host
\* and of a joiner, and what they send over it.
Managers == {"host", "joiner"}
ClientIdOf(m) == IF m = "host" THEN "host-1" ELSE "peer-1"   \* this.clientId, one per manager
Null == "null"                                                \* this.sessionId after disconnect()
maxConnectionAttempts == 3

\* the fields of a manager before initializeHost / initializeClient
NewManager ==
    [sessionId |-> Null, attempts |-> 0, offline |-> FALSE,
     state |-> "NEW",          \* of the WebSocket created last: CONNECTING, OPEN, CLOSING, CLOSED
     sock |-> 0,               \* the server's handle of that socket, 0 until accepted
     ref |-> FALSE,            \* this.websocket !== null
     settled |-> FALSE,        \* the connectWebSocket() promise of initialize... has settled
     peer |-> FALSE, dataChannel |-> FALSE, localDesc |-> FALSE,
     down |-> << >>,           \* frames the server wrote to the socket, not yet 'message' events
     timers |-> 0,             \* pending reconnect timeouts
     disconnected |-> FALSE,   \* disconnect() has been called
     sockets |-> 0, joins |-> 0, ice |-> 0,   \* WebSocket objects created, join-session and ice frames sent
     offerIn |-> FALSE, answerIn |-> FALSE]
ClientInit == wm = [m \in Managers |-> NewManager]

JoinOf(m, r) == Frame("join-session", r.sessionId, ClientIdOf(m), Undefined, Undefined)
OfferFrame == Frame("webrtc-offer", Undefined, Undefined, "offer", Undefined)
AnswerFrame == Frame("webrtc-answer", Undefined, Undefined, "answer", Undefined)
IceFrame == Frame("ice-candidate", Undefined, Undefined, "candidate", Undefined)

\* the body of connectWebSocket() up to new WebSocket(wsUrl)
ConnectBody(r) ==
    IF r.attempts + 1 > maxConnectionAttempts
    THEN [r EXCEPT !.attempts = @ + 1, !.offline = TRUE]
    ELSE [r EXCEPT !.attempts = @ + 1, !.state = "CONNECTING", !.sock = 0, !.ref = TRUE,
                   !.sockets = @ + 1]

\* a connectWebSocket() promise settles.  The one awaited by initializeHost /
\* initializeClient is followed by the creation of the peer connection (the
\* host's catch goes offline and carries on, the joiner's rejection leaves
\* initializeClient); the one of a reconnect has only its catch.
Settle(m, r, ok) ==
    IF r.settled THEN [r EXCEPT !.offline = @ \/ ~ok]
    ELSE IF m = "host"
    THEN [r EXCEPT !.settled = TRUE, !.offline = @ \/ ~ok, !.peer = TRUE, !.dataChannel = TRUE]
    ELSE [r EXCEPT !.settled = TRUE, !.peer = ok]

\* this.websocket?.send(frame): the frames in transit to the server afterwards
WsSend(r, frame) ==
    IF r.ref /\ r.state = "OPEN" /\ r.sock # 0
    THEN [inbox EXCEPT ![r.sock] = Append(@, frame)]
    ELSE inbox

ClientOnly == UNCHANGED <<coreVars, sent, received>>

\* initializeHost(sessionId) / initializeClient(sessionId, hostPublicKey)
Initialize(m) ==
    /\ wm[m].state = "NEW"
    /\ wm' = [wm EXCEPT ![m] = ConnectBody([@ EXCEPT !.sessionId = "abc"])]
    /\ UNCHANGED inbox
    /\ ClientOnly

\* the server accepts the socket a manager is opening
Accept(ws, m) ==
    /\ wm[m].state = "CONNECTING" /\ wm[m].sock = 0
    /\ Connection(ws)
    /\ wm' = [wm EXCEPT ![m].sock = ws]
    /\ UNCHANGED orderVars

\* websocket.onopen
OnOpen(m) ==
    LET r1 == [wm[m] EXCEPT !.state = "OPEN", !.attempts = 0]
    IN  /\ wm[m].state = "CONNECTING" /\ wm[m].sock # 0
        /\ inbox' = WsSend(r1, JoinOf(m, r1))
        /\ wm' = [wm EXCEPT ![m] = Settle(m, [r1 EXCEPT !.joins = @ + 1], TRUE)]
        /\ ClientOnly

\* websocket.onerror and the onclose that follows it: the server is not reached
ConnectError(m) ==
    LET r == wm[m]
        r1 == IF r.attempts >= maxConnectionAttempts
              THEN Settle(m, [r EXCEPT !.offline = TRUE], TRUE)
              ELSE Settle(m, r, FALSE)
        r2 == [r1 EXCEPT !.state = "CLOSED"]
    IN  /\ r.state = "CONNECTING" /\ r.sock = 0
        /\ wm' = [wm EXCEPT ![m] =
                    IF ~r2.offline /\ r2.attempts < maxConnectionAttempts
                    THEN [r2 EXCEPT !.timers = @ + 1] ELSE r2]
        /\ UNCHANGED inbox
        /\ ClientOnly

\* disconnect()
Disconnect(m) ==
    /\ wm[m].state # "NEW" /\ ~wm[m].disconnected
    /\ wm' = [wm EXCEPT ![m] =
                [@ EXCEPT !.dataChannel = FALSE, !.peer = FALSE,
                          !.state = IF wm[m].ref /\ wm[m].state \in {"CONNECTING", "OPEN"}
                                    THEN "CLOSING" ELSE @,
                          !.ref = FALSE, !.sessionId = Null, !.disconnected = TRUE]]
    /\ UNCHANGED inbox
    /\ ClientOnly

\* the server's 'close' event of a socket its client is closing
ServerClose(ws) ==
    /\ \E m \in Managers : wm[m].sock = ws /\ wm[m].state = "CLOSING"
    /\ OrderClose(ws)
    /\ UNCHANGED wm

\* websocket.onclose
OnCloseEvt(m) ==
    LET r == wm[m]
        r1 == [r EXCEPT !.state = "CLOSED", !.down = << >>]
    IN  /\ r.state = "CLOSING"
        /\ r.sock # 0 => readyState[r.sock] = "CLOSED"
        /\ wm' = [wm EXCEPT ![m] =
                    IF ~r.offline /\ r.attempts < maxConnectionAttempts
                    THEN [r1 EXCEPT !.timers = @ + 1] ELSE r1]
        /\ UNCHANGED inbox
        /\ ClientOnly

\* the reconnect timeout: connectWebSocket().catch(() => offline)
ReconnectTimer(m) ==
    /\ wm[m].timers > 0
    /\ wm[m].state \in {"CLOSED"}
    /\ wm' = [wm EXCEPT ![m] = ConnectBody([@ EXCEPT !.timers = @ - 1])]
    /\ UNCHANGED inbox
    /\ ClientOnly

\* the server handles the oldest frame of a socket; what it writes to the
\* sockets is in transit to their managers
ClientServerHandle(ws) ==
    /\ ServerHandle(ws)
    /\ wm' = [m \in Managers |->
                IF wm[m].sock # 0 /\ wm[m].state = "OPEN"
                THEN [wm[m] EXCEPT !.down = @ \o lastDeliv'[wm[m].sock]]
                ELSE wm[m]]

\* websocket.onmessage -> handleSignalingMessage
OnSignal(m) ==
    LET r == wm[m]
        msg == Head(r.down)
        r1 == [r EXCEPT !.down = Tail(@)]
    IN  /\ r.state = "OPEN" /\ r.down # << >>
        /\ IF ~r.peer THEN wm' = [wm EXCEPT ![m] = r1] /\ UNCHANGED inbox
           ELSE IF msg.type = "peer-joined" /\ r.dataChannel
           THEN /\ wm' = [wm EXCEPT ![m] = [r1 EXCEPT !.localDesc = TRUE]]
                /\ inbox' = WsSend(r1, OfferFrame)
           ELSE IF msg.type = "webrtc-offer"
           THEN /\ wm' = [wm EXCEPT ![m] = [r1 EXCEPT !.localDesc = TRUE, !.offerIn = TRUE]]
                /\ inbox' = WsSend(r1, AnswerFrame)
           ELSE IF msg.type = "webrtc-answer"
           THEN wm' = [wm EXCEPT ![m] = [r1 EXCEPT !.answerIn = TRUE]] /\ UNCHANGED inbox
           ELSE wm' = [wm EXCEPT ![m] = r1] /\ UNCHANGED inbox
        /\ ClientOnly

\* peer.onicecandidate, after setLocalDescription
OnIceCandidate(m) ==
    /\ wm[m].peer /\ wm[m].localDesc /\ wm[m].ice < MaxIce
    /\ wm[m].state = "OPEN"
    /\ inbox' = WsSend(wm[m], IceFrame)
    /\ wm' = [wm EXCEPT ![m].ice = @ + 1]
    /\ ClientOnly

ClientIdle == UNCHANGED <<histVars, storeVars, obsVars, vfy, trail>>

\* a host and a joiner that connect, join and stay connected
HandshakeNext ==
    \/ \E m \in Managers : Initialize(m) /\ ClientIdle
    \/ \E ws \in Conns, m \in Managers : Accept(ws, m) /\ ClientIdle
    \/ \E m \in Managers : OnOpen(m) /\ ClientIdle
    \/ \E ws \in Conns : ClientServerHandle(ws) /\ ClientIdle
    \/ \E m \in Managers : OnSignal(m) /\ ClientIdle
    \/ \E m \in Managers : OnIceCandidate(m) /\ ClientIdle

\* the same two with connection failures, disconnect() and the reconnect timer
ClientNext ==
    \/ HandshakeNext
    \/ \E m \in Managers : ConnectError(m) /\ ClientIdle
    \/ \E m \in Managers : Disconnect(m) /\ ClientIdle
    \/ \E ws \in Conns : ServerClose(ws) /\ ClientIdle
    \/ \E m \in Managers : OnCloseEvt(m) /\ ClientIdle
    \/ \E m \in Managers : ReconnectTimer(m) /\ ClientIdle

\* what the WebSocket handlers leave alone
RelayIdle == UNCHANGED <<storeVars, obsVars, vfy, orderVars, trail, wm>>

\* what the sockets CS send when their frames are drawn from FS
RelayNextOver(CS, FS) ==
    \/ \E ws \in CS : Connection(ws) /\ UNCHANGED histVars /\ RelayIdle
    \/ \E ws \in CS, m \in FS : OnMessage(ws, m) /\ UNCHANGED histVars /\ RelayIdle
    \/ \E ws \in CS : OnClose(ws) /\ UNCHANGED histVars /\ RelayIdle

\* three sockets, join-session frames well formed
RelayNext == RelayNextOver(Conns, WellFormedJoins \cup OtherFrames)
Init == RelayInit /\ StoreInit /\ NoCall /\ OrderInit /\ TrailInit /\ ClientInit
SpecRelay == Init /\ [][RelayNext]_vars

\* the relay with the frames in transit
SpecOrder == Init /\ [][OrderNext]_vars

\* host and joiner, connected for good; every pending event is eventually handled
SpecHandshake == Init /\ [][HandshakeNext]_vars /\ WF_vars(HandshakeNext)
\* host and joiner with failures, disconnect() and reconnects
SpecClient == Init /\ [][ClientNext]_vars

\* ---- the join history: an observer of the join-session handler
Plus(n, k) == IF n + k >= MaxCount THEN MaxCount ELSE n + k

\* two sockets, every frame (join-session without sessionId or clientId
\* included), with the number of join-session frames each socket has sent
RawConns == {1, 2}
JoinCount(ws) ==
    /\ nJoinMsgs' = [nJoinMsgs EXCEPT ![ws] = Plus(@, 1)]
    /\ UNCHANGED <<pjCount, joinOrder>>
JoinCountReset(ws) ==
    /\ nJoinMsgs' = [nJoinMsgs EXCEPT ![ws] = 0]
    /\ UNCHANGED <<pjCount, joinOrder>>
RelayRawNext ==
    \/ \E ws \in RawConns : Connection(ws) /\ UNCHANGED histVars /\ RelayIdle
    \/ \E ws \in RawConns, m \in JoinFrames : OnMessage(ws, m) /\ JoinCount(ws) /\ RelayIdle
    \/ \E ws \in RawConns, m \in OtherFrames : OnMessage(ws, m) /\ UNCHANGED histVars /\ RelayIdle
    \/ \E ws \in RawConns : OnClose(ws) /\ JoinCountReset(ws) /\ RelayIdle
SpecRelayRaw == Init /\ [][RelayRawNext]_vars

\* pjCount is kept between sockets that have joined exactly once (the sockets
\* the claims about two joining clients speak of): it is cleared for a socket
\* that joins again.
JoinHist(ws) ==
    /\ nJoinMsgs' = [nJoinMsgs EXCEPT ![ws] = Plus(@, 1)]
    /\ pjCount' = [c \in Conns |-> [d \in Conns |->
                      IF (c = ws \/ d = ws) /\ nJoinMsgs[ws] >= 1 THEN 0
                      ELSE IF d = ws /\ nJoinMsgs[c] <= 1
                           THEN Plus(pjCount[c][d], Len(lastDeliv'[c]))
                      ELSE pjCount[c][d]]]
    /\ joinOrder' = IF \E i \in 1..Len(joinOrder) : joinOrder[i] = ws
                    THEN joinOrder ELSE Append(joinOrder, ws)

\* the history of a socket is dropped when it closes (it joins and receives
\* nothing more)
RECURSIVE Without(_, _)
Without(seq, c) ==
    IF seq = << >> THEN << >>
    ELSE IF Head(seq) = c THEN Without(Tail(seq), c)
    ELSE <<Head(seq)>> \o Without(Tail(seq), c)

CloseHist(ws) ==
    /\ pjCount' = [c \in Conns |-> [d \in Conns |->
                      IF c = ws \/ d = ws THEN 0 ELSE pjCount[c][d]]]
    /\ nJoinMsgs' = [nJoinMsgs EXCEPT ![ws] = 0]
    /\ joinOrder' = Without(joinOrder, ws)

\* three sockets that connect, join and close, with the join history recorded
JoinNext ==
    \/ \E ws \in Conns : Connection(ws) /\ UNCHANGED histVars /\ RelayIdle
    \/ \E ws \in Conns, m \in WellFormedJoins : OnMessage(ws, m) /\ JoinHist(ws) /\ RelayIdle
    \/ \E ws \in Conns : OnClose(ws) /\ CloseHist(ws) /\ RelayIdle
SpecJoin == Init /\ [][JoinNext]_vars

\* the HTTP session handlers, the sweep timer and the clock
Next == HttpNext
Spec == Init /\ [][Next]_vars

\* the same, where the interval timer keeps firing and time keeps passing
SpecSweep ==
    Init /\ [][Next]_vars /\ WF_vars(SweepTimer /\ HttpIdle) /\ WF_vars(Tick /\ HttpIdle)

\* ---- what the relay writes for what it read
\* Two sockets of session "abc"; payloads include bytes that are not UTF-8,
\* typing frames include one without isTyping.
PayloadConns == {1, 2}
PayloadFrames ==
    { f \in WellFormedJoins : f.sessionId = "abc" }
    \cup { Frame(t, Undefined, Undefined, p, Undefined) : t \in RelayKinds, p \in Payloads \cup {BadUtf8} }
    \cup { Frame("typing", Undefined, Undefined, p, y) :
              p \in Payloads, y \in {"true", "false", Undefined} }
PayloadNext == RelayNextOver(PayloadConns, PayloadFrames)
SpecPayload == Init /\ [][PayloadNext]_vars

\* ---- the relay next to the session table
\* Two sockets of session "abc" while its record is created, read, deleted and
\* swept. lastEvt and lastDeliv observe the last WebSocket event since the
\* last store operation.
LifeConns == {1, 2}
LifeFrames ==
    { f \in WellFormedJoins : f.sessionId = "abc" }
    \cup { Frame("webrtc-offer", Undefined, Undefined, "X", Undefined) }
    \cup { Frame("typing", Undefined, Undefined, "X", "true") }
LifeIdle ==
    /\ lastEvt' = NoEvt
    /\ lastDeliv' = NoDeliv
    /\ UNCHANGED <<readyState, wsSessionId, wsClientId, connectedClients, histVars, vfy,
                   orderVars, trail, wm>>
LifeNext ==
    \/ RelayNextOver(LifeConns, LifeFrames)
    \/ \E id \in ClientChosenIds, key \in {<<"p">>}, ttl \in {TtlTicks} :
           StoreCreateSession(id, key, ttl) /\ LifeIdle
    \/ \E id \in ClientChosenIds : StoreGetSession(id) /\ LifeIdle
    \/ \E id \in ClientChosenIds : StoreDeleteSession(id) /\ LifeIdle
    \/ SweepTimer /\ LifeIdle
    \/ Tick /\ LifeIdle
SpecLife == Init /\ [][LifeNext]_vars

\* the sweep timer against explicit deletes
SpecRace == Init /\ [][RaceNext]_vars

\* the session store driven through its own interface
SpecStore == Init /\ [][StoreNext]_vars

\* the session operations of the store alone, updates of expiresAt included
StoreSessionNext ==
    \/ \E id \in ClientChosenIds, key \in HostKeys : StoreCreateSession(id, key, TtlTicks) /\ HttpIdle
    \/ \E id \in ClientChosenIds : StoreGetSession(id) /\ HttpIdle
    \/ \E id \in ClientChosenIds : StoreUpdateSignature(id) /\ HttpIdle
    \/ \E id \in ClientChosenIds, e \in 0..(MaxTime + TtlTicks) : StoreUpdateExpiresAt(id, e) /\ HttpIdle
    \/ \E id \in ClientChosenIds, c \in 0..MaxTime : StoreUpdateCreatedAt(id, c) /\ HttpIdle
    \/ \E id \in ClientChosenIds : StoreDeleteSession(id) /\ HttpIdle
    \/ SweepTimer /\ HttpIdle
    \/ Tick /\ HttpIdle
SpecStoreSessions == Init /\ [][StoreSessionNext]_vars

\* calls of verifySignature
InitSig == RelayInit /\ StoreInit /\ SigInit /\ OrderInit /\ TrailInit /\ ClientInit
SpecSig == InitSig /\ [][SigNext]_vars

\* position of connection c in joinOrder (0: it has not joined)
JoinPos(c) ==
    IF \E i \in 1..Len(joinOrder) : joinOrder[i] = c
    THEN CHOOSE i \in 1..Len(joinOrder) : joinOrder[i] = c
    ELSE 0

\* ================================================================== claims
Open(c) == readyState[c] = "OPEN"
IsRelayEvt == lastEvt.kind = "message" /\ lastEvt.frame.type \in RelayKinds \cup {"typing"}
IsJoinEvt == lastEvt.kind = "message" /\ lastEvt.frame.type = "join-session"
\* what the relay is to send for an inbound frame m
Forwarded(m) == IF m.type = "typing" THEN TypingMsg(m) ELSE m
\* every element of seq is x
AllAre(seq, x) == \A i \in 1..Len(seq) : seq[i] = x

\* C1: a frame relayed by a connection joined to session S is delivered to
\* every other open connection joined to S and to no connection joined to a
\* different session.
C1_RelayReachesSession ==
    (IsRelayEvt /\ wsSessionId[lastEvt.conn] # Undefined) =>
        \A d \in Conns \ {lastEvt.conn} :
            /\ (Open(d) /\ wsSessionId[d] = wsSessionId[lastEvt.conn]) =>
                   (Len(lastDeliv[d]) >= 1 /\ AllAre(lastDeliv[d], Forwarded(lastEvt.frame)))
            /\ wsSessionId[d] # wsSessionId[lastEvt.conn] => lastDeliv[d] = << >>

Registered(c) ==
    wsClientId[c] \in DOMAIN connectedClients /\ connectedClients[wsClientId[c]] = c

C3_JoinNotifiesSessionOnce ==
    IsJoinEvt =>
        /\ lastDeliv[lastEvt.conn] = << >>
        /\ \A d \in Conns \ {lastEvt.conn} :
              /\ (Open(d) /\ wsSessionId[d] = lastEvt.frame.sessionId) =>
                     lastDeliv[d] = <<PeerJoinedMsg(lastEvt.frame.clientId)>>
              /\ wsSessionId[d] # lastEvt.frame.sessionId => lastDeliv[d] = << >>

LiveCodes == issued \ revoked

\* C5: for every session created (at createdAt, expiring at createdAt + T) and
\* not explicitly deleted, GET /api/sessions/:id answers with that session at
\* every time before createdAt + T and with not-found from createdAt + T on.
C5_BoundaryExact ==
    lastOp.kind = "get" =>
        \A c \in LiveCodes :
            c.sessionId = lastOp.id =>
                IF now < c.expiration
                THEN /\ resp.status = 200
                     /\ resp.session.hostPublicKey = c.hostPublicKey
                     /\ resp.session.expiresAt = c.expiration
                ELSE resp.status = 404

\* C6: verifySignature(m, s) is true exactly when s = createSignature(m): true
\* for the genuine signature, false for one altered in a bit, made under
\* another secret or made for another message.
C6_VerifyExactlySign ==
    vfy.done =>
        /\ vfy.result <=> (vfy.signature = createSignature(vfy.data))
        /\ vfy.kind = "genuine" => vfy.result
        /\ vfy.kind \in {"bit-altered", "other-secret", "other-message"} => ~vfy.result
\* a signature altered in one bit was rejected
C6_Witness == vfy.done /\ vfy.kind = "bit-altered" /\ ~vfy.result

\* C7: a pairing code issued by POST /api/sessions, submitted unmodified to
\* /api/verify-qr before its expiry instant while its session has not been
\* deleted, is answered with valid: true.
C7_IssuedCodeAccepted ==
    (lastOp.kind = "verify" /\ lastOp.code \in LiveCodes /\ now < lastOp.code.expiration) =>
        (resp.status = 200 /\ resp.valid)
\* an issued code was submitted unmodified in the last tick before its expiry, and accepted
C7_Witness ==
    /\ lastOp.kind = "verify"
    /\ lastOp.code \in LiveCodes
    /\ now + 1 = lastOp.code.expiration
    /\ resp.valid

\* C8: whenever a session leaves the session table (explicit delete, sweep, or
\* lazy expiry inside getSession), its offer, answer and ICE candidates are
\* gone as well.
C8_RemovalClearsPeerData ==
    [][\A id \in AllIds :
          (id \in DOMAIN sessions /\ id \notin DOMAIN sessions') =>
              /\ id \notin DOMAIN peerOffers'
              /\ id \notin DOMAIN peerAnswers'
              /\ id \notin DOMAIN iceCandidates']_vars

C10_CreationNeverReplaces ==
    lastOp.kind = "post" => lastOp.prior = NoSession

\* C11: the expiresAt of the record stored under an id never changes while
\* the record stays in the session table, whatever store operation runs.
C11_ExpiresAtImmutable ==
    [][\A id \in AllIds :
          (id \in DOMAIN sessions /\ id \in DOMAIN sessions') =>
              sessions'[id].expiresAt = sessions[id].expiresAt]_vars

IsCloseEvt == lastEvt.kind = "close" /\ lastEvt.frame.clientId # Undefined

\* C12: when a joined connection closes, no registry entry maps to it any
\* more, every other open connection tagged with its session receives
\* peer-left{clientId} exactly once, and connections of other sessions receive
\* nothing.
C12_CloseNotifiesSession ==
    IsCloseEvt =>
        /\ KeysOf(connectedClients, lastEvt.conn) = {}
        /\ \A d \in Conns \ {lastEvt.conn} :
              /\ (Open(d) /\ wsSessionId[d] = lastEvt.frame.sessionId) =>
                     lastDeliv[d] = <<PeerLeftMsg(lastEvt.frame.clientId)>>
              /\ wsSessionId[d] # lastEvt.frame.sessionId => lastDeliv[d] = << >>

PosIn(seq, x) == CHOOSE i \in 1..Len(seq) : seq[i] = x

\* C13: what a connection receives from one sender, it receives in the order
\* in which that sender sent it.
C13_SenderOrderKept ==
    \A d \in Conns : \A i, j \in 1..Len(received[d]) :
        (i < j /\ received[d][i].from = received[d][j].from) =>
            PosIn(sent[received[d][i].from], received[d][i].payload)
                <= PosIn(sent[received[d][j].from], received[d][j].payload)
\* a peer has received two different frames of one sender
C13_Witness ==
    \E d \in Conns : \E i, j \in 1..Len(received[d]) :
        /\ i < j
        /\ received[d][i].from = received[d][j].from
        /\ received[d][i].payload # received[d][j].payload

\* C14: whatever the handler of one event sends (a relayed frame, peer-joined
\* or peer-left), each connection is sent it at most once.
C14_AtMostOnce == \A d \in Conns : Len(lastDeliv[d]) <= 1

Joined(c) == wsClientId[c] # Undefined
IsRelayedFrame(m) == m.type \in RelayKinds \cup {"typing"}

\* C15: a relayed frame is sent only by the handler of that frame, and only
\* to connections that are open and joined to the sender's session at that
\* moment; no later event (a join in particular) delivers it.
C15_NothingBuffered ==
    /\ IsRelayEvt =>
           \A d \in Conns :
               lastDeliv[d] # << >> =>
                   (Open(d) /\ Joined(d) /\ wsSessionId[d] = wsSessionId[lastEvt.conn])
    /\ ~IsRelayEvt =>
           \A d \in Conns : \A i \in 1..Len(lastDeliv[d]) : ~IsRelayedFrame(lastDeliv[d][i])
\* a frame was relayed to a joined peer while another open connection, not yet joined, got nothing
C15_Witness ==
    /\ IsRelayEvt
    /\ \E d \in Conns : lastDeliv[d] # << >>
    /\ \E d \in Conns \ {lastEvt.conn} : Open(d) /\ ~Joined(d) /\ lastDeliv[d] = << >>

NeverJoined(c) == Open(c) /\ nJoinMsgs[c] = 0

\* C16: a relayed-kind frame from a connection that has sent no join-session
\* frame is sent to no connection, and a connection that has sent no
\* join-session frame is sent nothing at all.
C16_UnjoinedIsInert ==
    /\ (IsRelayEvt /\ NeverJoined(lastEvt.conn)) => \A d \in Conns : lastDeliv[d] = << >>
    /\ \A d \in Conns : NeverJoined(d) => lastDeliv[d] = << >>

\* the bodies a client can submit to /api/verify-qr for session id
VerifyBodiesFor(id) == { Altered(c, how) : c \in { x \in issued : x.sessionId = id }, how \in Alterations }

\* C17: for an id whose session has expired, GET /api/sessions/:id, POST
\* /api/sessions/:id/join and POST /api/verify-qr answer exactly (status and
\* body) as they would if no session had ever been stored under that id.
C17_ExpiredLikeUnknown ==
    \A id \in DOMAIN sessions :
        sessions[id].expiresAt <= now =>
            LET unknown == Del(sessions, id)
            IN  /\ GetResponse(sessions, id, now) = GetResponse(unknown, id, now)
                /\ \A ok \in BOOLEAN :
                       JoinResponse(sessions, id, ok, now) = JoinResponse(unknown, id, ok, now)
                /\ \A body \in VerifyBodiesFor(id) :
                       VerifyResponse(sessions, body, now) = VerifyResponse(unknown, body, now)
\* an expired session is still stored when its unmodified code is verified, and the answer is not-found
C17_Witness ==
    /\ lastOp.kind = "verify"
    /\ lastOp.prior # NoSession
    /\ lastOp.prior.expiresAt <= now
    /\ lastOp.code \in issued
    /\ resp.status = 404

\* C18: /api/verify-qr answers valid: true only at times strictly before the
\* expiration carried by the submitted code.
C18_NeverAcceptedAtExpiry ==
    (lastOp.kind = "verify" /\ resp.valid) => now < lastOp.code.expiration

SignedString(code) == QrData(code.sessionId, code.hostPublicKey, code.expiration)

\* C19: a code whose signature is not the server's signature of its fields is
\* answered by /api/verify-qr with a 4xx error and never with valid: true,
\* whatever the session store holds; when the code has not expired and the
\* signature is a string, the error is 'Invalid QR signature'.
C19_BadSignatureIsClientError ==
    (lastOp.kind = "verify" /\ lastOp.code.signature # createSignature(SignedString(lastOp.code))) =>
        /\ resp.status = 400
        /\ ~resp.valid
        /\ (lastOp.code.signature # NoSig /\ now <= lastOp.code.expiration) =>
               resp.error = "Invalid QR signature"
\* a code with an altered signature was refused while its session was stored and live
C19_Witness ==
    /\ lastOp.kind = "verify"
    /\ lastOp.code.signature # createSignature(SignedString(lastOp.code))
    /\ lastOp.code.signature # NoSig
    /\ lastOp.prior # NoSession
    /\ lastOp.prior.expiresAt > now
    /\ resp.error = "Invalid QR signature"

\* C20: verifySignature returns false, and does not throw, for a signature
\* that is empty, of another length than a real one, or missing.
C20_MalformedReturnsFalse ==
    (vfy.done /\ vfy.kind \in {"empty", "truncated", "extended", "missing"}) =>
        (~vfy.result /\ ~vfy.threw)

\* the request handled last was malformed: a session-creation body without
\* hostPublicKey, a join body that fails its schema, or a pairing code whose
\* signature is missing or is not the signature of its fields
MalformedRequest ==
    \/ lastOp.kind \in {"post-invalid", "join-invalid"}
    \/ /\ lastOp.kind = "verify"
       /\ lastOp.code.signature # createSignature(SignedString(lastOp.code))

HasBlobs(id) ==
    id \in DOMAIN peerOffers \/ id \in DOMAIN peerAnswers \/ id \in DOMAIN iceCandidates

getAllSessions(sess) ==
    { [id |-> sess[k].id, createdAt |-> sess[k].createdAt, isActive |-> sess[k].isActive,
       expiresAt |-> sess[k].expiresAt] : k \in DOMAIN sess }

BlobsOf(po, pa, ic, id) ==
    <<Lookup(po, id, Undefined), Lookup(pa, id, Undefined), Lookup(ic, id, << >>)>>

\* C23: the sweep removes exactly the sessions with expiresAt <= now: they
\* are no longer in the table nor in the listing, and every other id keeps
\* its record and its blobs as they were.
C23_SweepRemovesExactlyExpired ==
    [][lastOp'.kind = "sweep" =>
          \A id \in AllIds :
              IF id \in DOMAIN sessions /\ sessions[id].expiresAt <= now
              THEN /\ id \notin DOMAIN sessions'
                   /\ \A e \in getAllSessions(sessions') : e.id # id
              ELSE /\ Lookup(sessions', id, NoSession) = Lookup(sessions, id, NoSession)
                   /\ BlobsOf(peerOffers', peerAnswers', iceCandidates', id)
                          = BlobsOf(peerOffers, peerAnswers, iceCandidates, id)]_vars
\* the sweep at the expiry instant of a session removed it and kept a live one with its blobs
C23_Witness ==
    /\ lastOp.kind = "sweep"
    /\ resp.session # NoSession
    /\ resp.session.expiresAt = now
    /\ resp.session.id \notin DOMAIN sessions
    /\ \E id \in DOMAIN sessions : sessions[id].expiresAt > now /\ HasBlobs(id)

StoredWithExpiry(id, e) == id \in DOMAIN sessions /\ sessions[id].expiresAt = e

SweepAndDeleteOf(id) ==
    \/ trail[1].op.kind = "delete" /\ trail[1].op.id = id /\ trail[2].op.kind = "sweep"
    \/ trail[1].op.kind = "sweep" /\ trail[2].op.kind = "delete" /\ trail[2].op.id = id

\* C25: when a sweep and an explicit delete of a session the sweep removes run
\* one after the other, in either order, the store ends in the one state fixed
\* by the store they started from: every session expired by then, the deleted
\* one included, is absent with its blobs cleared, every other id keeps its
\* record and its blobs, and the delete answers 200.
C25_SweepDeleteSameOutcome ==
    LET S0 == trail[1].store
        gone == { g \in DOMAIN S0.sessions : S0.sessions[g].expiresAt <= now }
    IN  \A id \in gone :
            SweepAndDeleteOf(id) =>
                /\ resp.status = 200
                /\ \A g \in gone : g \notin DOMAIN sessions /\ ~HasBlobs(g)
                /\ \A o \in AllIds \ gone :
                       /\ Lookup(sessions, o, NoSession) = Lookup(S0.sessions, o, NoSession)
                       /\ BlobsOf(peerOffers, peerAnswers, iceCandidates, o)
                              = BlobsOf(S0.peerOffers, S0.peerAnswers, S0.iceCandidates, o)
\* the sweep ran first and the delete found the session gone; another session kept its blobs
C25_Witness ==
    LET S0 == trail[1].store
    IN  /\ trail[1].op.kind = "sweep"
        /\ trail[2].op.kind = "delete"
        /\ trail[2].op.id \in DOMAIN S0.sessions
        /\ S0.sessions[trail[2].op.id].expiresAt <= now
        /\ trail[2].op.id \in DOMAIN S0.peerOffers
        /\ trail[2].op.prior = NoSession
        /\ \E o \in DOMAIN sessions : HasBlobs(o)

JoinedAs(c) == Open(c) /\ wsSessionId[c] # Undefined /\ wsClientId[c] # Undefined

\* C26: two open connections whose join messages named the same session and
\* distinct client ids are both in the registry, each under its own client id
\* and tagged with that session, whatever other connections did in between.
C26_BothJoinsRecorded ==
    \A a, b \in Conns :
        (/\ a # b
         /\ JoinedAs(a) /\ JoinedAs(b)
         /\ wsSessionId[a] = wsSessionId[b]
         /\ wsClientId[a] # wsClientId[b])
            => Registered(a) /\ Registered(b)

RecordRemoved == \E id \in DOMAIN sessions : id \notin DOMAIN sessions'

\* C27: a step that removes a session record (delete, sweep, lazy expiry)
\* changes no connection's state, tags or registry entry, and a frame relayed
\* by a connection of a session whose record is not stored reaches every other
\* open registered connection of that session.
C27_RemovalLeavesConnections ==
    [][/\ RecordRemoved => UNCHANGED <<readyState, connectedClients, wsSessionId, wsClientId>>
       /\ (/\ IsRelayEvt'
           /\ wsSessionId'[lastEvt'.conn] # Undefined
           /\ StoredAs(wsSessionId'[lastEvt'.conn]) \notin DOMAIN sessions') =>
              \A d \in Conns \ {lastEvt'.conn} :
                  (Open(d)' /\ Registered(d)' /\ wsSessionId'[d] = wsSessionId'[lastEvt'.conn]) =>
                      (Len(lastDeliv'[d]) >= 1 /\ AllAre(lastDeliv'[d], Forwarded(lastEvt'.frame)))
      ]_vars
\* the record of "abc" was deleted, and after that a frame was relayed between its connections
C27_Witness ==
    /\ lastOp.kind = "delete"
    /\ lastOp.prior # NoSession
    /\ StoredAs("abc") \notin DOMAIN sessions
    /\ IsRelayEvt
    /\ \E d \in Conns : wsSessionId[d] = "abc" /\ Registered(d) /\ lastDeliv[d] = <<Forwarded(lastEvt.frame)>>

\* C28: every entry of the connection registry maps to an open connection,
\* whatever join-session frames (repeated ones and ones without a clientId
\* included) and closes have been handled.
C28_RegistryOnlyOpen ==
    \A k \in DOMAIN connectedClients : Open(connectedClients[k])

IsUpdate(op) == op.kind \in {"update", "update-expiry", "update-created"}

\* C29: an update of a stored id stores the existing record merged with the
\* given fields and returns it, leaving createdAt (and the id and the host
\* key, which no update here names) as they were; an update of an id that is
\* not stored returns not-found and leaves the table as it was.
C29_UpdateMergesKeepsCreatedAt ==
    [][IsUpdate(lastOp') =>
          IF lastOp'.id \in DOMAIN sessions
          THEN /\ lastOp'.id \in DOMAIN sessions'
               /\ DOMAIN sessions' = DOMAIN sessions
               /\ sessions'[lastOp'.id].createdAt = sessions[lastOp'.id].createdAt
               /\ sessions'[lastOp'.id].id = sessions[lastOp'.id].id
               /\ sessions'[lastOp'.id].hostPublicKey = sessions[lastOp'.id].hostPublicKey
               /\ resp'.session = sessions'[lastOp'.id]
          ELSE /\ sessions' = sessions
               /\ resp'.session = NoSession]_vars

\* C30: what a relayed frame delivers is, for webrtc-offer, webrtc-answer,
\* ice-candidate and key-exchange, the frame as the sender sent it, payload
\* included, and for typing a message of the fields type and isTyping alone,
\* isTyping as the sender gave it.
C30_PayloadVerbatim ==
    IsRelayEvt => \A d \in Conns : AllAre(lastDeliv[d], Forwarded(lastEvt.frame))

\* C31: the session record in the answer of a successful POST /api/sessions
\* carries the final signature: the one in the pairing URL, which is the
\* signature of id|hostPublicKey|expiresAt, and not the placeholder.
C31_ResponseCarriesFinalSignature ==
    lastOp.kind = "post" =>
        /\ resp.session.signature = lastOp.code.signature
        /\ resp.session.signature =
               createSignature(QrData(resp.session.id, resp.session.hostPublicKey,
                                      resp.session.expiresAt))
        /\ resp.session.signature # TempSignature

\* C32: when POST /api/verify-qr answers valid: true, the session record in
\* the answer has the hostPublicKey and the expiry of the pairing code that was
\* submitted, whatever creations, deletions and expiries came before.
C32_ValidMeansSameSession ==
    (lastOp.kind = "verify" /\ resp.valid) =>
        /\ resp.session.id = lastOp.code.sessionId
        /\ resp.session.hostPublicKey = lastOp.code.hostPublicKey
        /\ resp.session.expiresAt = lastOp.code.expiration

Closes(c) == readyState[c] = "OPEN" /\ readyState'[c] = "CLOSED"

\* C33: the close of one connection leaves every other open connection that
\* is registered under its client id registered under it.
C33_CloseKeepsOthersRegistered ==
    [][\A c, d \in Conns :
          (c # d /\ Closes(c) /\ Open(d) /\ Registered(d)) => Registered(d)']_vars

\* what a join-session event leaves behind, the session table not consulted
JoinOutcome ==
    IsJoinEvt =>
        /\ Registered(lastEvt.conn)
        /\ wsClientId[lastEvt.conn] = lastEvt.frame.clientId
        /\ wsSessionId[lastEvt.conn] = lastEvt.frame.sessionId
        /\ \A d \in Conns \ {lastEvt.conn} :
               (Open(d) /\ Registered(d) /\ wsSessionId[d] = lastEvt.frame.sessionId) =>
                   (Len(lastDeliv[d]) >= 1
                    /\ AllAre(lastDeliv[d], PeerJoinedMsg(lastEvt.frame.clientId)))
\* what a relayed frame leaves behind, the session table not consulted
RelayOutcome ==
    (IsRelayEvt /\ wsSessionId[lastEvt.conn] # Undefined) =>
        \A d \in Conns \ {lastEvt.conn} :
            (Open(d) /\ Registered(d) /\ wsSessionId[d] = wsSessionId[lastEvt.conn]) =>
                (Len(lastDeliv[d]) >= 1 /\ AllAre(lastDeliv[d], DataToString(Forwarded(lastEvt.frame))))

\* C34: a join-session or relayed frame changes nothing in the session store,
\* and the join (registration, tagging, peer-joined to the session's
\* registered peers) and the relay take place whether the record of the
\* session named is stored, was never created, has expired or was deleted.
C34_RelayIgnoresStore ==
    [][(IsJoinEvt' \/ IsRelayEvt') =>
          /\ UNCHANGED <<sessions, peerOffers, peerAnswers, iceCandidates>>
          /\ JoinOutcome'
          /\ RelayOutcome']_vars
\* no record was ever stored, and a joined connection's frame reached its peer;
\* (reached as well: the same after the record expired and after it was deleted)
C34_Witness ==
    /\ lastOp.kind = "none"
    /\ sessions = << >>
    /\ IsRelayEvt
    /\ wsSessionId[lastEvt.conn] = "abc"
    /\ \E d \in Conns \ {lastEvt.conn} : lastDeliv[d] = <<Forwarded(lastEvt.frame)>>

\* C35: the connection an event comes from (the sender of a relayed frame,
\* the connection that joins, the connection that closes) is sent nothing by
\* the handling of that event.
C35_NothingBackToOrigin ==
    lastEvt.kind \in {"message", "close"} => lastDeliv[lastEvt.conn] = << >>
\* a frame from a sender that is itself in the registry reached its peer, and not the sender
C35_Witness ==
    /\ IsRelayEvt
    /\ Registered(lastEvt.conn)
    /\ lastDeliv[lastEvt.conn] = << >>
    /\ \E d \in Conns \ {lastEvt.conn} : lastDeliv[d] # << >>

KnownKinds == {"join-session", "typing"} \cup RelayKinds

\* C36: the handling of a frame that is not JSON, or whose type is none of
\* the six known kinds, changes no registry entry, no tag and no connection
\* state, and sends nothing: the sender stays open and joined as it was.
C36_BadFrameIsInert ==
    [][(lastEvt'.kind = "message" /\ lastEvt'.frame.type \notin KnownKinds) =>
          /\ UNCHANGED <<readyState, wsSessionId, wsClientId, connectedClients>>
          /\ readyState'[lastEvt'.conn] = "OPEN"
          /\ lastDeliv' = NoDeliv]_vars
\* a joined, registered connection with an open peer in its session sent a frame that is not JSON
C36_Witness ==
    /\ lastEvt.kind = "message"
    /\ lastEvt.frame = NotJson
    /\ Open(lastEvt.conn) /\ Registered(lastEvt.conn)
    /\ \E d \in Conns \ {lastEvt.conn} :
           Open(d) /\ Registered(d) /\ wsSessionId[d] = wsSessionId[lastEvt.conn]
    /\ lastDeliv = NoDeliv

BothJoined ==
    \A m \in Managers : wm[m].sock # 0 /\ wsSessionId[wm[m].sock] = "abc"

\* C37: once the relay has handled the join-session of the host and of the
\* joiner, in whichever order, and both stay connected, the joiner eventually
\* receives a webrtc-offer from the host.
C37_OfferReachesJoiner ==
    BothJoined ~> wm["joiner"].offerIn

\* C38: once disconnect() has been called on a manager, that manager creates
\* no further WebSocket and sends no further join-session frame.
C38_DisconnectIsFinal ==
    [][\A m \in Managers :
          wm[m].disconnected =>
              /\ wm'[m].sockets = wm[m].sockets
              /\ wm'[m].joins = wm[m].joins]_vars

====
